---- MODULE Spec2Model ----
(***************************************************************************)
(* Client-side data pipeline of the user data explorer (App.js): the       *)
(* expiring localStorage cache, the parallel fetch coordinator and the     *)
(* streaming NDJSON ingestor.                                              *)
(***************************************************************************)
EXTENDS Integers, Sequences, FiniteSets, TLC

VARIABLES
    \* ---- streaming ingestor (streamData, App.js 177-218)
    body,           \* the characters the stream endpoint will deliver, in order
    bodyPos,        \* how many of them reader.read() has handed out so far
    conn,           \* the response body: "none", "open", "ended", "errored"
    spc,            \* position of the streamData call
    streamLimit,    \* dataSettings.streamLimit captured by the call
    receivedCount,  \* let receivedCount
    buffer,         \* let buffer
    streamUsers,    \* React state streamUsers
    \* ---- expiring cache and parallel fetch (App.js 28-121)
    now,            \* Date.now()
    localStorage,   \* the stored strings, by key (a key without an item is absent)
    puts,           \* key -> arguments and time of the latest saveToCache call
    lastGet,        \* key, time and return value of the latest getFromCache call
    users,          \* React state users
    loading,        \* React state loading
    dataSource,     \* React state dataSource
    metrics,        \* React state metrics (the two fetch timings)
    pagesToFetch,   \* dataSettings.pagesToFetch
    fpc,            \* position of the fetchParallelData call
    allReqs,        \* page -> outcome of the request of the Promise.all group
    settledReqs,    \* page -> outcome of the request of the Promise.allSettled group
    timing,         \* promiseAllStart, promiseAllEnd, promiseSettledStart
    allUsers,       \* const allUsers
    successfulData, \* const successfulData
    lastResult,     \* how the latest fetchParallelData call ended
    \* ---- processing dispatcher (App.js 124-174, worker.js)
    minAge,         \* React state minAge
    sortBy,         \* React state sortBy
    useWorker,      \* React state useWorker
    workers,        \* every Worker created so far, in creation order
    lastProc        \* input and output of the latest processing applied to users

streamVars == <<body, bodyPos, conn, spc, streamLimit, receivedCount, buffer, streamUsers>>
appVars == <<now, localStorage, puts, lastGet, users, loading, dataSource, metrics,
             pagesToFetch, fpc, allReqs, settledReqs, timing, allUsers,
             successfulData, lastResult>>
procVars == <<minAge, sortBy, useWorker, workers, lastProc>>
vars == <<streamVars, appVars, procVars>>

\* ------------------------------------------------------------------ bounds
MaxLines == 3
MaxLimit == 2
MaxChunk == 10
MaxEpochs == 1
MaxOffset == 1
MaxPages == 2
MaxUsers == 3
MaxWorkers == 2

Min(a, b) == IF a < b THEN a ELSE b

\* ------------------------------------------------------------ stream text
NL == "\n"

\* One character per JSON token group: "{" id name "}" stands for
\* {"id":<id>,"name":"<name>",...}; id "0" is a falsy id, name "_" the empty name.
IdChars == {"0", "1", "2"}
NameChars == {"a", "b", "_"}

IdVal(c) == CASE c = "0" -> 0 [] c = "1" -> 1 [] c = "2" -> 2
NameVal(c) == IF c = "_" THEN "" ELSE c

LineKinds ==
    { <<"{", "1", "a", "}">>,      \* a user with id 1
      <<"{", "2", "a", "}">>,      \* a user with id 2
      <<"{", "1", "b", "}">>,      \* another record with id 1
      <<"{", "0", "a", "}">>,      \* id missing / falsy
      <<"{", "2", "_", "}">>,      \* empty name
      <<"{", "x">>,                \* not JSON
      <<" ">> }                    \* whitespace only

RECURSIVE JoinLines(_, _)
\* The lines of ls, each followed by a newline, except that the last one is
\* left unterminated when terminated is FALSE.
JoinLines(ls, terminated) ==
    IF ls = <<>> THEN <<>>
    ELSE IF Len(ls) = 1
         THEN IF terminated THEN Head(ls) \o <<NL>> ELSE Head(ls)
         ELSE Head(ls) \o <<NL>> \o JoinLines(Tail(ls), terminated)

Bodies ==
    { JoinLines(ls, t) : ls \in UNION { [1..n -> LineKinds] : n \in 0..MaxLines },
                         t \in BOOLEAN }

\* ------------------------------------------------------------ string helpers
RECURSIVE Split(_)
\* String.prototype.split('\n'): always at least one element.
Split(s) ==
    IF \A i \in 1..Len(s) : s[i] # NL
    THEN <<s>>
    ELSE LET k == CHOOSE i \in 1..Len(s) : s[i] = NL /\ \A j \in 1..(i-1) : s[j] # NL
         IN  <<SubSeq(s, 1, k - 1)>> \o Split(SubSeq(s, k + 1, Len(s)))

RECURSIVE Trim(_)
Trim(s) ==
    IF s = <<>> THEN s
    ELSE IF Head(s) = " " THEN Trim(Tail(s))
    ELSE IF s[Len(s)] = " " THEN Trim(SubSeq(s, 1, Len(s) - 1))
    ELSE s

\* JSON.parse(line): succeeds on one whole object, surrounding whitespace allowed.
JsonOk(line) ==
    LET t == Trim(line)
    IN  Len(t) = 4 /\ t[1] = "{" /\ t[2] \in IdChars /\ t[3] \in NameChars /\ t[4] = "}"

JsonParse(line) ==
    LET t == Trim(line) IN [id |-> IdVal(t[2]), name |-> NameVal(t[3])]

\* !user.id || !user.name
Invalid(user) == user.id = 0 \/ user.name = ""

\* The outcome of the try block for one line: "blank" (continue), "user"
\* (accepted by the parser and the validation), "error" (caught and logged).
LineOutcome(line) ==
    IF Trim(line) = <<>> THEN "blank"
    ELSE IF ~JsonOk(line) THEN "error"
    ELSE IF Invalid(JsonParse(line)) THEN "error"
    ELSE "user"

\* setStreamUsers(prev => prev.some(u => u.id === user.id) ? prev : [...prev, user])
AppendUnique(prev, user) ==
    IF \E i \in 1..Len(prev) : prev[i].id = user.id THEN prev ELSE Append(prev, user)

\* Mutation of LimitReached: the comparison is off by one.
LimitReachedLate(count, limit) == count > limit

\* if (receivedCount >= dataSettings.streamLimit) break;
LimitReached(count, limit) == count >= limit

RECURSIVE ProcessLinesAbort(_, _, _, _)
\* Mutation of ProcessLines: the try/catch encloses the whole for loop, so the
\* first failing line ends the processing of the chunk's lines.
ProcessLinesAbort(lines, count, su, limit) ==
    IF lines = <<>> THEN [count |-> count, su |-> su]
    ELSE IF LimitReached(count, limit) THEN [count |-> count, su |-> su]
    ELSE IF LineOutcome(Head(lines)) = "user"
         THEN ProcessLinesAbort(Tail(lines), count + 1,
                                AppendUnique(su, JsonParse(Head(lines))), limit)
         ELSE IF LineOutcome(Head(lines)) = "error"
              THEN [count |-> count, su |-> su]
              ELSE ProcessLinesAbort(Tail(lines), count, su, limit)

RECURSIVE ProcessLines(_, _, _, _)
\* for (const line of lines.slice(0, -1)) { ... }: the resulting receivedCount
\* and streamUsers. lines is what is left of lines.slice(0, -1).
ProcessLines(lines, count, su, limit) ==
    IF lines = <<>> THEN [count |-> count, su |-> su]
    ELSE IF LimitReached(count, limit) THEN [count |-> count, su |-> su]
    ELSE IF LineOutcome(Head(lines)) = "user"
         THEN ProcessLines(Tail(lines), count + 1,
                           AppendUnique(su, JsonParse(Head(lines))), limit)
         ELSE ProcessLines(Tail(lines), count, su, limit)

\* ------------------------------------------------------------ streaming actions
\* streamData is called: setStreamUsers([]) and the fetch is issued.
StartStream ==
    /\ spc = "idle"
    /\ ~loading
    /\ spc' = "fetching"
    /\ streamUsers' = <<>>
    /\ UNCHANGED <<body, bodyPos, conn, streamLimit, receivedCount, buffer>>
    /\ UNCHANGED appVars
    /\ UNCHANGED procVars

\* The fetch settles with a usable response: the reader is taken and the loop
\* condition is evaluated for the first time.
StreamOpen ==
    /\ spc = "fetching"
    /\ conn' = "open"
    /\ receivedCount' = 0
    /\ buffer' = <<>>
    /\ spc' = IF 0 < streamLimit THEN "reading" ELSE "done"
    /\ UNCHANGED <<body, bodyPos, streamLimit, streamUsers>>
    /\ UNCHANGED appVars
    /\ UNCHANGED procVars

\* The fetch rejects, or the response is not ok, or it has no body.
StreamOpenFail ==
    /\ spc = "fetching"
    /\ spc' = "failed"
    /\ UNCHANGED <<body, bodyPos, conn, streamLimit, receivedCount, buffer, streamUsers>>
    /\ UNCHANGED appVars
    /\ UNCHANGED procVars

\* reader.read() resolves with a chunk of n characters: one pass of the while body.
ReadChunk(n) ==
    /\ spc = "reading"
    /\ n >= 1
    /\ bodyPos + n <= Len(body)
    /\ LET text == buffer \o SubSeq(body, bodyPos + 1, bodyPos + n)
           lines == Split(text)
           r == ProcessLines(SubSeq(lines, 1, Len(lines) - 1), receivedCount,
                             streamUsers, streamLimit)
       IN  /\ receivedCount' = r.count
           /\ streamUsers' = r.su
           /\ buffer' = lines[Len(lines)]
           /\ spc' = IF r.count < streamLimit THEN "reading" ELSE "done"
    /\ bodyPos' = bodyPos + n
    /\ UNCHANGED <<body, conn, streamLimit>>
    /\ UNCHANGED appVars
    /\ UNCHANGED procVars

\* reader.read() resolves with done: the loop is left by the break.
ReadDone ==
    /\ spc = "reading"
    /\ bodyPos = Len(body)
    /\ spc' = "done"
    /\ conn' = "ended"
    /\ UNCHANGED <<body, bodyPos, streamLimit, receivedCount, buffer, streamUsers>>
    /\ UNCHANGED appVars
    /\ UNCHANGED procVars

\* reader.read() rejects: the outer catch logs 'Streaming failed'.
ReadError ==
    /\ spc = "reading"
    /\ spc' = "failed"
    /\ conn' = "errored"
    /\ UNCHANGED <<body, bodyPos, streamLimit, receivedCount, buffer, streamUsers>>
    /\ UNCHANGED appVars
    /\ UNCHANGED procVars

\* ------------------------------------------------------------ time
CACHE_EXPIRY == 5 * 60 * 1000

\* The instants the clock takes: around every multiple of the expiry time.
Instants == { q * CACHE_EXPIRY + r : q \in 0..MaxEpochs, r \in 0..MaxOffset }
Steps == {1, CACHE_EXPIRY - 1, CACHE_EXPIRY}

\* ------------------------------------------------------------ records
ErrorBody == [error |-> "Internal server error"]

\* Bodies res.json() yields for a page: arrays of users (the two share an id
\* and differ in the rest of that record).
Batches ==
    { <<[id |-> 2, name |-> "a", age |-> 40], [id |-> 3, name |-> "a", age |-> 30]>>,
      <<[id |-> 3, name |-> "c", age |-> 50], [id |-> 1, name |-> "b", age |-> 30]>> }

Pending == [st |-> "pending", items |-> <<>>]
Rejected == [st |-> "rejected", items |-> <<>>]
Fulfilled(items) == [st |-> "fulfilled", items |-> items]

\* u.id === user.id, where a missing id is undefined on both sides.
SameId(u, v) ==
    IF "id" \in DOMAIN u /\ "id" \in DOMAIN v THEN u.id = v.id
    ELSE "id" \notin DOMAIN u /\ "id" \notin DOMAIN v

\* ------------------------------------------------------------ JSON text
KeyOrder == <<"id", "name", "age", "error">>

\* JSON.stringify of one object: its key/value pairs in key order.
StringifyObj(o) ==
    LET has(k) == k \in DOMAIN o
        ks == SelectSeq(KeyOrder, has)
    IN  [i \in 1..Len(ks) |-> <<ks[i], o[ks[i]]>>]

\* JSON.parse of one object text.
ParseObj(ps) ==
    [k \in {ps[i][1] : i \in 1..Len(ps)} |->
        ps[CHOOSE i \in 1..Len(ps) : ps[i][1] = k][2]]

\* JSON.stringify({data, timestamp})
StringifyEntry(cacheData) ==
    [dataText |-> [i \in 1..Len(cacheData.data) |-> StringifyObj(cacheData.data[i])],
     timestampText |-> cacheData.timestamp]

\* const { data, timestamp } = JSON.parse(cached)
ParseEntry(cached) ==
    [data |-> [i \in 1..Len(cached.dataText) |-> ParseObj(cached.dataText[i])],
     timestamp |-> cached.timestampText]

\* ------------------------------------------------------------ cache helpers
RemoveItem(store, key) == [k \in DOMAIN store \ {key} |-> store[k]]
SetItem(store, key, text) ==
    [k \in DOMAIN store \cup {key} |-> IF k = key THEN text ELSE store[k]]

\* Mutation of SaveToCache: the payload is stored without its last record.
SaveToCacheTruncated(store, key, data, t) ==
    SetItem(store, key,
            StringifyEntry([data |-> SubSeq(data, 1, Len(data) - 1), timestamp |-> t]))

\* saveToCache(key, data) at time t: the storage afterwards.
SaveToCache(store, key, data, t) ==
    SetItem(store, key, StringifyEntry([data |-> data, timestamp |-> t]))

\* Mutation of Expired: the entry expires as soon as its age reaches the expiry time.
ExpiredAtExpiry(t, timestamp) == t - timestamp >= CACHE_EXPIRY

\* Date.now() - timestamp > CACHE_EXPIRY
Expired(t, timestamp) == t - timestamp > CACHE_EXPIRY

\* getFromCache(key) at time t: hit with the data, or a miss (null); and the
\* storage afterwards.
GetFromCache(store, key, t) ==
    IF key \notin DOMAIN store
    THEN [hit |-> FALSE, data |-> <<>>, store |-> store]
    ELSE LET e == ParseEntry(store[key])
         IN  IF Expired(t, e.timestamp)
             THEN [hit |-> FALSE, data |-> <<>>, store |-> RemoveItem(store, key)]
             ELSE [hit |-> TRUE, data |-> e.data, store |-> store]

\* Bookkeeping of the calls, for the statements about them.
NotePut(key, data, t) ==
    [k \in DOMAIN puts \cup {key} |->
        IF k = key THEN [data |-> data, at |-> t] ELSE puts[k]]
NoteGet(key, g, t) == <<[key |-> key, at |-> t, hit |-> g.hit, data |-> g.data]>>

\* ------------------------------------------------------------ merge
RECURSIVE FlatFrom(_, _)
\* The elements of bodies[i], bodies[i+1], ... in order.
FlatFrom(bodies, i) ==
    IF i > Len(bodies) THEN <<>> ELSE bodies[i] \o FlatFrom(bodies, i + 1)

\* Array.prototype.flat() of the bodies, in page order.
Flat(bodies) == FlatFrom(bodies, 1)

Values(reqs) == [p \in 1..Len(reqs) |-> reqs[p].items]
IsFulfilled(r) == r.st = "fulfilled"

\* Mutation of SuccessfulData: the status filter is missing, so a rejected
\* request contributes its reason.
SuccessfulDataUnfiltered(reqs) ==
    Flat([p \in 1..Len(reqs) |->
            IF reqs[p].st = "rejected" THEN <<ErrorBody>> ELSE reqs[p].items])

\* settledResponses.filter(fulfilled).map(value).flat()
SuccessfulData(reqs) == Flat(Values(SelectSeq(reqs, IsFulfilled)))

\* self.findIndex(u => u.id === user.id)
FindIndex(self, user) ==
    CHOOSE i \in 1..Len(self) :
        SameId(self[i], user) /\ \A j \in 1..(i - 1) : ~SameId(self[j], user)

\* Mutation of Combine: the last occurrence of an id is the one kept.
CombineKeepLast(a, b) ==
    LET self == a \o b
        last(i) == \A j \in (i + 1)..Len(self) : ~SameId(self[j], self[i])
        kept == SelectSeq([i \in 1..Len(self) |-> i], last)
    IN  [k \in 1..Len(kept) |-> self[kept[k]]]

\* [...allUsers, ...successfulData].filter((user, index, self) =>
\*     index === self.findIndex(u => u.id === user.id))
Combine(a, b) ==
    LET self == a \o b
        first(i) == i = FindIndex(self, self[i])
        kept == SelectSeq([i \in 1..Len(self) |-> i], first)
    IN  [k \in 1..Len(kept) |-> self[kept[k]]]

\* ------------------------------------------------------------ app actions
TimeBound(t) == t \in Instants

Tick(d) ==
    /\ TimeBound(now + d)
    /\ now' = now + d
    /\ UNCHANGED <<localStorage, puts, lastGet, users, loading, dataSource, metrics,
                   pagesToFetch, fpc, allReqs, settledReqs, timing, allUsers,
                   successfulData, lastResult>>
    /\ UNCHANGED streamVars
    /\ UNCHANGED procVars

\* The "Pages to Fetch" input: parseInt(value) || 1. A running call has
\* already built its page list, so a change made while it runs is the same
\* as one made right after it returns; only the latter is generated.
SetPagesToFetch(n) ==
    /\ n >= 1
    /\ fpc = "idle"
    /\ pagesToFetch' = n
    /\ UNCHANGED <<now, localStorage, puts, lastGet, users, loading, dataSource, metrics,
                   fpc, allReqs, settledReqs, timing, allUsers, successfulData,
                   lastResult>>
    /\ UNCHANGED streamVars
    /\ UNCHANGED procVars

\* fetchParallelData is called and the cache answers: lines 55-64.
FetchFromCache ==
    /\ fpc = "idle"
    /\ ~loading
    /\ LET g == GetFromCache(localStorage, "users", now)
       IN  /\ g.hit
           /\ localStorage' = g.store
           /\ lastGet' = NoteGet("users", g, now)
           /\ users' = g.data
    /\ dataSource' = "cache"
    /\ loading' = FALSE
    /\ lastResult' = "cache"
    /\ UNCHANGED <<now, puts, metrics, pagesToFetch, fpc, allReqs, settledReqs, timing,
                   allUsers, successfulData>>
    /\ UNCHANGED streamVars
    /\ UNCHANGED procVars

\* fetchParallelData is called and the cache misses: the requests of the
\* Promise.all group are issued, lines 55-80.
FetchStart ==
    /\ fpc = "idle"
    /\ ~loading
    /\ LET g == GetFromCache(localStorage, "users", now)
       IN  /\ ~g.hit
           /\ localStorage' = g.store
           /\ lastGet' = NoteGet("users", g, now)
    /\ loading' = TRUE
    /\ fpc' = "all"
    /\ allReqs' = [p \in 1..pagesToFetch |-> Pending]
    /\ settledReqs' = <<>>
    /\ timing' = [allStart |-> now, allEnd |-> now, settledStart |-> now]
    /\ allUsers' = <<>>
    /\ successfulData' = <<>>
    /\ lastResult' = "none"
    /\ UNCHANGED <<now, puts, users, dataSource, metrics, pagesToFetch>>
    /\ UNCHANGED streamVars
    /\ UNCHANGED procVars

\* A request of the Promise.all group is fulfilled; with the last one the
\* function resumes and issues the Promise.allSettled group, lines 81-90.
AllFulfil(p, v) ==
    /\ fpc = "all"
    /\ p \in 1..Len(allReqs)
    /\ allReqs[p] = Pending
    /\ allReqs' = [allReqs EXCEPT ![p] = Fulfilled(v)]
    /\ IF \A q \in 1..Len(allReqs) : allReqs'[q].st = "fulfilled"
       THEN /\ fpc' = "settled"
            /\ settledReqs' = [q \in 1..Len(allReqs) |-> Pending]
            /\ timing' = [timing EXCEPT !.allEnd = now, !.settledStart = now]
       ELSE UNCHANGED <<fpc, settledReqs, timing>>
    /\ UNCHANGED <<now, localStorage, puts, lastGet, users, loading, dataSource, metrics,
                   pagesToFetch, allUsers, successfulData, lastResult>>
    /\ UNCHANGED streamVars
    /\ UNCHANGED procVars

\* Mutation of FetchFailed: loading is cleared at the end of the try block
\* instead of in a finally block.
FetchFailedNoFinally ==
    /\ lastResult' = "error"
    /\ loading' = loading
    /\ fpc' = "idle"

\* The catch and finally blocks, lines 116-120.
FetchFailed ==
    /\ lastResult' = "error"
    /\ loading' = FALSE
    /\ fpc' = "idle"

\* Mutation of AllReject: the failure is swallowed and the call goes on to the
\* Promise.allSettled group.
AllRejectFallback(p) ==
    /\ fpc = "all"
    /\ p \in 1..Len(allReqs)
    /\ allReqs[p] = Pending
    /\ allReqs' = [allReqs EXCEPT ![p] = Rejected]
    /\ fpc' = "settled"
    /\ settledReqs' = [q \in 1..Len(allReqs) |-> Pending]
    /\ UNCHANGED <<now, localStorage, puts, lastGet, users, loading, dataSource, metrics,
                   pagesToFetch, timing, allUsers, successfulData, lastResult>>
    /\ UNCHANGED streamVars
    /\ UNCHANGED procVars

\* A request of the Promise.all group rejects (network failure, or a body
\* that is not JSON): Promise.all rejects at once.
AllReject(p) ==
    /\ fpc = "all"
    /\ p \in 1..Len(allReqs)
    /\ allReqs[p] = Pending
    /\ allReqs' = [allReqs EXCEPT ![p] = Rejected]
    /\ FetchFailed
    /\ UNCHANGED <<now, localStorage, puts, lastGet, users, dataSource, metrics,
                   pagesToFetch, settledReqs, timing, allUsers, successfulData>>
    /\ UNCHANGED streamVars
    /\ UNCHANGED procVars

\* A request of the Promise.allSettled group settles; with the last one the
\* function resumes and runs lines 91-115 and the finally block.
SettledSettle(p, r) ==
    /\ fpc = "settled"
    /\ p \in 1..Len(settledReqs)
    /\ settledReqs[p] = Pending
    /\ settledReqs' = [settledReqs EXCEPT ![p] = r]
    /\ IF \A q \in 1..Len(settledReqs) : settledReqs'[q] # Pending
       THEN LET all == Flat(Values(allReqs))
                ok == SuccessfulData(settledReqs')
                combinedUsers == Combine(all, ok)
            IN  /\ allUsers' = all
                /\ successfulData' = ok
                /\ users' = combinedUsers
                /\ dataSource' = "server"
                /\ metrics' = [metrics EXCEPT
                                  !.promiseAll = timing.allEnd - timing.allStart,
                                  !.promiseAllSettled = now - timing.settledStart]
                /\ localStorage' = SaveToCache(localStorage, "users", combinedUsers, now)
                /\ puts' = NotePut("users", combinedUsers, now)
                /\ lastGet' = <<>>
                /\ lastResult' = "server"
                /\ loading' = FALSE
                /\ fpc' = "idle"
       ELSE UNCHANGED <<allUsers, successfulData, users, dataSource, metrics,
                        localStorage, puts, lastGet, lastResult, loading, fpc>>
    /\ UNCHANGED <<now, pagesToFetch, allReqs, timing>>
    /\ UNCHANGED streamVars
    /\ UNCHANGED procVars

\* ------------------------------------------------------------ cache in isolation
Keys == {"users", "settings"}
Payloads == Batches \cup { <<>>, <<ErrorBody>> }

CacheSave(key, data) ==
    /\ localStorage' = SaveToCache(localStorage, key, data, now)
    /\ puts' = NotePut(key, data, now)
    /\ lastGet' = <<>>
    /\ UNCHANGED <<now, users, loading, dataSource, metrics, pagesToFetch, fpc, allReqs,
                   settledReqs, timing, allUsers, successfulData, lastResult>>
    /\ UNCHANGED streamVars
    /\ UNCHANGED procVars

CacheGet(key) ==
    /\ LET g == GetFromCache(localStorage, key, now)
       IN  /\ localStorage' = g.store
           /\ lastGet' = NoteGet(key, g, now)
    /\ UNCHANGED <<now, puts, users, loading, dataSource, metrics, pagesToFetch, fpc,
                   allReqs, settledReqs, timing, allUsers, successfulData, lastResult>>
    /\ UNCHANGED streamVars
    /\ UNCHANGED procVars

\* ------------------------------------------------------------ processing
\* The order String.prototype.localeCompare gives the names that occur: by
\* letter first and, for one letter, the lower case first; not the order of
\* the character codes, which has "B" before "a".
Collation == <<"a", "b", "B", "c">>
Rank(name) == CHOOSE i \in 1..Len(Collation) : Collation[i] = name

\* x.localeCompare(y)
LocaleCompare(x, y) ==
    IF Rank(x) < Rank(y) THEN -1 ELSE IF Rank(x) > Rank(y) THEN 1 ELSE 0

\* The comparator of a sort as a table over the elements being sorted.
Elements(s) == {s[i] : i \in 1..Len(s)}

\* One step of the sort: x is placed behind the elements of the sorted t that
\* do not compare greater than it.
Insert(t, x, cmp) ==
    LET k == Cardinality({i \in 1..Len(t) : cmp[t[i], x] <= 0})
    IN  SubSeq(t, 1, k) \o <<x>> \o SubSeq(t, k + 1, Len(t))

\* Array.prototype.sort(cmp): a stable sort (ECMAScript 2019).
ArraySort(s, cmp) ==
    LET sorted[n \in 0..Len(s)] ==
            IF n = 0 THEN <<>> ELSE Insert(sorted[n - 1], s[n], cmp)
    IN  sorted[Len(s)]

\* user.age > minAge; a missing age is undefined, and undefined > n is false.
OlderThan(user, m) == "age" \in DOMAIN user /\ user.age > m

\* Mutation of MainCompare: equal keys compare as greater, as a comparator
\* written "a > b ? -1 : 1" backwards would.
MainCompareTiesGreater(a, b, key) ==
    IF key = "name"
    THEN (IF LocaleCompare(a.name, b.name) < 0 THEN -1 ELSE 1)
    ELSE (IF a.age < b.age THEN -1 ELSE 1)

\* processInMainThread, lines 154-159.
MainFilteredUsers(us, m) == LET keep(u) == OlderThan(u, m) IN SelectSeq(us, keep)
MainCompare(a, b, key) ==
    IF key = "name" THEN LocaleCompare(a.name, b.name) ELSE a.age - b.age
MainSortedUsers(us, m, key) ==
    LET filteredUsers == MainFilteredUsers(us, m)
        cmp == [a \in Elements(filteredUsers), b \in Elements(filteredUsers) |->
                   MainCompare(a, b, key)]
    IN  ArraySort(filteredUsers, cmp)

\* postMessage hands the worker a structured clone of the message: every
\* record is rebuilt from its own enumerable properties.
StructuredClone(us) == [i \in 1..Len(us) |-> [k \in DOMAIN us[i] |-> us[i][k]]]

\* Mutation of WorkerFilteredUsers: the boundary age is kept.
WorkerFilteredUsersInclusive(us, m) ==
    LET keep(u) == "age" \in DOMAIN u /\ u.age >= m IN SelectSeq(us, keep)

\* self.onmessage, worker.js lines 3-13.
WorkerFilteredUsers(us, m) == LET keep(u) == OlderThan(u, m) IN SelectSeq(us, keep)

\* Mutation of WorkerCompare: the names are compared by character code.
WorkerCompareByCode(a, b, key) ==
    LET code(n) == CASE n = "B" -> 66 [] n = "a" -> 97 [] n = "b" -> 98 [] n = "c" -> 99
    IN  IF key = "name" THEN code(a.name) - code(b.name) ELSE a.age - b.age

WorkerCompare(a, b, key) ==
    IF key = "name" THEN LocaleCompare(a.name, b.name) ELSE a.age - b.age
WorkerSortedUsers(us, m, key) ==
    LET filteredUsers == WorkerFilteredUsers(us, m)
        cmp == [a \in Elements(filteredUsers), b \in Elements(filteredUsers) |->
                   WorkerCompare(a, b, key)]
    IN  ArraySort(filteredUsers, cmp)

\* The message of processWithWorker, the events a worker raises, and the Worker
\* object: its unread messages, the events not yet dispatched on the main
\* thread, how many messages were ever posted to it and how many of its
\* events the handlers of the caller have run for.
Request(us, m, key) == [users |-> StructuredClone(us), minAge |-> m, sortBy |-> key]
MessageEvent(us, d) == [type |-> "message", users |-> us, processingTime |-> d]
ErrorEvent == [type |-> "error", users |-> <<>>, processingTime |-> 0]
NewWorker(req) ==
    [st |-> "running", inbox |-> <<req>>, outbox |-> <<>>, posted |-> 1, handled |-> 0,
     req |-> req]

\* performance.now() differences, in ms: one value that differs from the
\* initial 0 of the metrics.
Durations == {1}

\* What the latest processing applied to users was given and what it produced.
NoteProc(mode, us, m, key, out) ==
    <<[mode |-> mode, users |-> us, minAge |-> m, sortBy |-> key, out |-> out]>>

\* Mutation of ProcessInMainThread: the processed set is also saved to the cache.
ProcessInMainThreadSaves(d) ==
    /\ ~loading
    /\ Len(users) # 0
    /\ ~useWorker
    /\ users' = MainSortedUsers(users, minAge, sortBy)
    /\ metrics' = [metrics EXCEPT !.mainThreadTime = d]
    /\ lastProc' = NoteProc("main", users, minAge, sortBy, users')
    /\ localStorage' = SaveToCache(localStorage, "users", users', now)
    /\ UNCHANGED <<minAge, sortBy, useWorker, workers>>
    /\ UNCHANGED <<now, puts, lastGet, loading, dataSource, pagesToFetch,
                   fpc, allReqs, settledReqs, timing, allUsers, successfulData,
                   lastResult>>
    /\ UNCHANGED streamVars

\* The "Process Data" button (disabled={loading || users.length === 0}) with
\* the checkbox off: processInMainThread, lines 151-166; it took d ms.
ProcessInMainThread(d) ==
    /\ ~loading
    /\ Len(users) # 0
    /\ ~useWorker
    /\ users' = MainSortedUsers(users, minAge, sortBy)
    /\ metrics' = [metrics EXCEPT !.mainThreadTime = d]
    /\ lastProc' = NoteProc("main", users, minAge, sortBy, users')
    /\ UNCHANGED <<minAge, sortBy, useWorker, workers>>
    /\ UNCHANGED <<now, localStorage, puts, lastGet, loading, dataSource, pagesToFetch,
                   fpc, allReqs, settledReqs, timing, allUsers, successfulData,
                   lastResult>>
    /\ UNCHANGED streamVars

\* The "Process Data" button with the checkbox on: processWithWorker, lines
\* 124-148, creates a Worker, posts one message and installs the handlers.
WorkerBound == Len(workers) < MaxWorkers

ProcessWithWorker ==
    /\ ~loading
    /\ useWorker
    /\ Len(users) # 0
    /\ WorkerBound
    /\ workers' = Append(workers, NewWorker(Request(users, minAge, sortBy)))
    /\ UNCHANGED <<minAge, sortBy, useWorker, lastProc>>
    /\ UNCHANGED appVars
    /\ UNCHANGED streamVars

\* The worker runs self.onmessage for its message and posts the result; the
\* handler measured d ms.
WorkerOnMessage(w, d) ==
    /\ w \in 1..Len(workers)
    /\ workers[w].st = "running"
    /\ workers[w].inbox # <<>>
    /\ LET data == Head(workers[w].inbox)
           sortedUsers == WorkerSortedUsers(data.users, data.minAge, data.sortBy)
       IN  workers' = [workers EXCEPT
                          ![w].inbox = Tail(@),
                          ![w].outbox = Append(@, MessageEvent(StructuredClone(sortedUsers), d))]
    /\ UNCHANGED <<minAge, sortBy, useWorker, lastProc>>
    /\ UNCHANGED appVars
    /\ UNCHANGED streamVars

\* The worker fails instead: its script does not load, or its handler throws.
WorkerFault(w) ==
    /\ w \in 1..Len(workers)
    /\ workers[w].st = "running"
    /\ workers[w].inbox # <<>>
    /\ workers' = [workers EXCEPT ![w].inbox = Tail(@), ![w].outbox = Append(@, ErrorEvent)]
    /\ UNCHANGED <<minAge, sortBy, useWorker, lastProc>>
    /\ UNCHANGED appVars
    /\ UNCHANGED streamVars

\* worker.onmessage, lines 135-142. A terminated worker dispatches nothing.
OnMessage(w) ==
    /\ w \in 1..Len(workers)
    /\ workers[w].st = "running"
    /\ workers[w].outbox # <<>>
    /\ Head(workers[w].outbox).type = "message"
    /\ LET e == Head(workers[w].outbox)
       IN  /\ users' = e.users
           /\ metrics' = [metrics EXCEPT !.workerTime = e.processingTime]
           /\ lastProc' = NoteProc("worker", workers[w].req.users, workers[w].req.minAge,
                                   workers[w].req.sortBy, e.users)
    /\ workers' = [workers EXCEPT ![w].outbox = Tail(@), ![w].handled = @ + 1,
                                  ![w].st = "terminated"]
    /\ UNCHANGED <<minAge, sortBy, useWorker>>
    /\ UNCHANGED <<now, localStorage, puts, lastGet, loading, dataSource, pagesToFetch,
                   fpc, allReqs, settledReqs, timing, allUsers, successfulData,
                   lastResult>>
    /\ UNCHANGED streamVars

\* Mutation of OnError: the handler only logs.
OnErrorLeak(w) ==
    /\ w \in 1..Len(workers)
    /\ workers[w].st = "running"
    /\ workers[w].outbox # <<>>
    /\ Head(workers[w].outbox).type = "error"
    /\ workers' = [workers EXCEPT ![w].outbox = Tail(@), ![w].handled = @ + 1]
    /\ UNCHANGED <<minAge, sortBy, useWorker, lastProc>>
    /\ UNCHANGED appVars
    /\ UNCHANGED streamVars

\* Mutation of OnError: the handler applies the event's data as onmessage does.
OnErrorApplies(w) ==
    /\ w \in 1..Len(workers)
    /\ workers[w].st = "running"
    /\ workers[w].outbox # <<>>
    /\ Head(workers[w].outbox).type = "error"
    /\ users' = Head(workers[w].outbox).users
    /\ workers' = [workers EXCEPT ![w].outbox = Tail(@), ![w].handled = @ + 1,
                                  ![w].st = "terminated"]
    /\ UNCHANGED <<minAge, sortBy, useWorker, lastProc>>
    /\ UNCHANGED <<now, localStorage, puts, lastGet, loading, dataSource, metrics,
                   pagesToFetch, fpc, allReqs, settledReqs, timing, allUsers,
                   successfulData, lastResult>>
    /\ UNCHANGED streamVars

\* worker.onerror, lines 144-147.
OnError(w) ==
    /\ w \in 1..Len(workers)
    /\ workers[w].st = "running"
    /\ workers[w].outbox # <<>>
    /\ Head(workers[w].outbox).type = "error"
    /\ workers' = [workers EXCEPT ![w].outbox = Tail(@), ![w].handled = @ + 1,
                                  ![w].st = "terminated"]
    /\ UNCHANGED <<minAge, sortBy, useWorker, lastProc>>
    /\ UNCHANGED appVars
    /\ UNCHANGED streamVars

\* ------------------------------------------------------------ specifications
InitApp ==
    /\ now = 0
    /\ localStorage = <<>>
    /\ puts = <<>>
    /\ lastGet = <<>>
    /\ users = <<>>
    /\ loading = FALSE
    /\ dataSource = "null"
    /\ metrics = [promiseAll |-> 0, promiseAllSettled |-> 0,
                  workerTime |-> 0, mainThreadTime |-> 0]
    /\ pagesToFetch = 2
    /\ fpc = "idle"
    /\ allReqs = <<>>
    /\ settledReqs = <<>>
    /\ timing = [allStart |-> 0, allEnd |-> 0, settledStart |-> 0]
    /\ allUsers = <<>>
    /\ successfulData = <<>>
    /\ lastResult = "none"

InitProc ==
    /\ minAge = 30
    /\ sortBy = "name"
    /\ useWorker = TRUE
    /\ workers = <<>>
    /\ lastProc = <<>>

InitNoStream ==
    /\ body = <<>>
    /\ bodyPos = 0
    /\ conn = "none"
    /\ spc = "idle"
    /\ streamLimit = 15
    /\ receivedCount = 0
    /\ buffer = <<>>
    /\ streamUsers = <<>>

InitStream ==
    /\ body \in Bodies
    /\ bodyPos = 0
    /\ conn = "none"
    /\ spc = "idle"
    /\ streamLimit \in 1..MaxLimit
    /\ receivedCount = 0
    /\ buffer = <<>>
    /\ streamUsers = <<>>
    /\ InitApp
    /\ InitProc

NextStream ==
    \/ StartStream
    \/ StreamOpen
    \/ StreamOpenFail
    \/ \E n \in 1..MaxChunk : ReadChunk(n)
    \/ ReadDone
    \/ ReadError

SpecStream == InitStream /\ [][NextStream]_vars

InitCache == InitNoStream /\ InitApp /\ InitProc

NextCache ==
    \/ \E d \in Steps : Tick(d)
    \/ \E key \in Keys, data \in Payloads : CacheSave(key, data)
    \/ \E key \in Keys : CacheGet(key)

SpecCache == InitCache /\ [][NextCache]_vars

InitFetch == InitNoStream /\ InitApp /\ InitProc

\* Between two operations of the page either no time passes or more than
\* the expiry time.
LongSteps == {CACHE_EXPIRY + 1}

NextFetch ==
    \/ \E d \in LongSteps : Tick(d)
    \/ \E n \in 1..MaxPages : SetPagesToFetch(n)
    \/ FetchFromCache
    \/ FetchStart
    \/ \E p \in 1..MaxPages, v \in Batches : AllFulfil(p, v)
    \/ \E p \in 1..MaxPages : AllReject(p)
    \/ \E p \in 1..MaxPages, r \in {Fulfilled(v) : v \in Batches} \cup {Rejected} :
          SettledSettle(p, r)

SpecFetch == InitFetch /\ [][NextFetch]_vars

\* Every issued request eventually settles.
AllSettles == \E p \in 1..MaxPages : AllReject(p) \/ \E v \in Batches : AllFulfil(p, v)
SettledSettles ==
    \E p \in 1..MaxPages, r \in {Fulfilled(v) : v \in Batches} \cup {Rejected} :
        SettledSettle(p, r)

SpecFetchLive == SpecFetch /\ WF_vars(AllSettles) /\ WF_vars(SettledSettles)

\* ------------------------------------------------------------ page responses
\* What a page request is answered with: the status, and the body as
\* res.json() reads it (jsonBody is FALSE for a body that is not JSON).
\* items is what flat() contributes for the parsed value: the elements of an
\* array, and the value itself when it is not an array.
PageOk(batch) == [status |-> 200, jsonBody |-> TRUE, isArray |-> TRUE, items |-> batch]
\* res.status(500).json({ error: 'Internal server error' }), server.js line 26.
PageError == [status |-> 500, jsonBody |-> TRUE, isArray |-> FALSE, items |-> <<ErrorBody>>]
\* res.status(500).send('Something broke!'), server.js line 56.
PageBroke == [status |-> 500, jsonBody |-> FALSE, isArray |-> FALSE, items |-> <<>>]

\* fetch(url).then(res => res.json()): the status is not looked at.
ResJson(res) == IF res.jsonBody THEN Fulfilled(res.items) ELSE Rejected

FirstBatch == CHOOSE b \in Batches : b[1].id = 2
PageResponses == {PageOk(FirstBatch), PageError, PageBroke}

\* A request of the Promise.all group is answered.
AllRespond(p, res) ==
    IF IsFulfilled(ResJson(res)) THEN AllFulfil(p, ResJson(res).items) ELSE AllReject(p)

\* A request of the Promise.allSettled group is answered.
SettledRespond(p, res) == SettledSettle(p, ResJson(res))

NextFetchErr ==
    \/ \E d \in LongSteps : Tick(d)
    \/ FetchFromCache
    \/ FetchStart
    \/ \E p \in 1..MaxPages, res \in PageResponses : AllRespond(p, res)
    \/ \E p \in 1..MaxPages, res \in PageResponses : SettledRespond(p, res)

SpecFetchErr == InitFetch /\ [][NextFetchErr]_vars

\* ------------------------------------------------------------ refresh
\* Mutation of RefreshData: the item is not removed before the fetch.
RefreshDataKeepsItem ==
    /\ fpc = "idle"
    /\ ~loading
    /\ LET g == GetFromCache(localStorage, "users", now)
       IN  /\ localStorage' = g.store
           /\ lastGet' = NoteGet("users", g, now)
           /\ IF g.hit
              THEN /\ users' = g.data
                   /\ dataSource' = "cache"
                   /\ loading' = FALSE
                   /\ lastResult' = "cache"
                   /\ UNCHANGED <<fpc, allReqs, settledReqs, timing, allUsers,
                                  successfulData>>
              ELSE /\ loading' = TRUE
                   /\ fpc' = "all"
                   /\ allReqs' = [p \in 1..pagesToFetch |-> Pending]
                   /\ settledReqs' = <<>>
                   /\ timing' = [allStart |-> now, allEnd |-> now, settledStart |-> now]
                   /\ allUsers' = <<>>
                   /\ successfulData' = <<>>
                   /\ lastResult' = "none"
                   /\ UNCHANGED <<users, dataSource>>
    /\ UNCHANGED <<now, puts, metrics, pagesToFetch>>
    /\ UNCHANGED streamVars
    /\ UNCHANGED procVars

\* The "Refresh Data" button (disabled={loading}): refreshData, lines 221-224,
\* which removes the item and calls fetchParallelData, lines 55-80.
RefreshData ==
    /\ fpc = "idle"
    /\ ~loading
    /\ LET g == GetFromCache(RemoveItem(localStorage, "users"), "users", now)
       IN  /\ localStorage' = g.store
           /\ lastGet' = NoteGet("users", g, now)
           /\ IF g.hit
              THEN /\ users' = g.data
                   /\ dataSource' = "cache"
                   /\ loading' = FALSE
                   /\ lastResult' = "cache"
                   /\ UNCHANGED <<fpc, allReqs, settledReqs, timing, allUsers,
                                  successfulData>>
              ELSE /\ loading' = TRUE
                   /\ fpc' = "all"
                   /\ allReqs' = [p \in 1..pagesToFetch |-> Pending]
                   /\ settledReqs' = <<>>
                   /\ timing' = [allStart |-> now, allEnd |-> now, settledStart |-> now]
                   /\ allUsers' = <<>>
                   /\ successfulData' = <<>>
                   /\ lastResult' = "none"
                   /\ UNCHANGED <<users, dataSource>>
    /\ UNCHANGED <<now, puts, metrics, pagesToFetch>>
    /\ UNCHANGED streamVars
    /\ UNCHANGED procVars

NextRefresh ==
    \/ \E d \in LongSteps : Tick(d)
    \/ RefreshData
    \/ FetchFromCache
    \/ FetchStart
    \/ \E p \in 1..MaxPages, v \in Batches : AllFulfil(p, v)
    \/ \E p \in 1..MaxPages : AllReject(p)
    \/ \E p \in 1..MaxPages, r \in {Fulfilled(v) : v \in Batches} \cup {Rejected} :
          SettledSettle(p, r)

SpecRefresh == InitFetch /\ [][NextRefresh]_vars

\* ------------------------------------------------------------ processing alone
\* The record sets handed to the dispatcher: records with pairwise distinct
\* ids, some sharing a name or an age, one of them at the default threshold.
UserPool ==
    { [id |-> 1, name |-> "b", age |-> 30],
      [id |-> 2, name |-> "a", age |-> 31],
      [id |-> 3, name |-> "B", age |-> 31],
      [id |-> 4, name |-> "a", age |-> 40] }
MinAges == {0, 30}
SortKeys == {"name", "age"}

UserSets ==
    { us \in UNION { [1..n -> UserPool] : n \in 0..MaxUsers } :
        \A i, j \in 1..Len(us) : i # j => us[i].id # us[j].id }

InitProcess ==
    /\ InitNoStream
    /\ now = 0
    /\ localStorage = <<>>
    /\ puts = <<>>
    /\ lastGet = <<>>
    /\ users \in UserSets
    /\ loading = FALSE
    /\ dataSource = "server"
    /\ metrics = [promiseAll |-> 0, promiseAllSettled |-> 0,
                  workerTime |-> 0, mainThreadTime |-> 0]
    /\ pagesToFetch = 2
    /\ fpc = "idle"
    /\ allReqs = <<>>
    /\ settledReqs = <<>>
    /\ timing = [allStart |-> 0, allEnd |-> 0, settledStart |-> 0]
    /\ allUsers = <<>>
    /\ successfulData = <<>>
    /\ lastResult = "server"
    /\ minAge \in MinAges
    /\ sortBy \in SortKeys
    /\ useWorker \in BOOLEAN
    /\ workers = <<>>
    /\ lastProc = <<>>

NextProcess ==
    \/ \E d \in Durations : ProcessInMainThread(d)
    \/ ProcessWithWorker
    \/ \E w \in 1..MaxWorkers, d \in Durations : WorkerOnMessage(w, d)
    \/ \E w \in 1..MaxWorkers : WorkerFault(w)
    \/ \E w \in 1..MaxWorkers : OnMessage(w)
    \/ \E w \in 1..MaxWorkers : OnError(w)

SpecProcess == InitProcess /\ [][NextProcess]_vars

\* ------------------------------------------------------------ the whole page
\* The stream delivers two records, one line per chunk, as the server writes them.
StreamBody == JoinLines(<< <<"{", "1", "a", "}">>, <<"{", "2", "a", "}">> >>, TRUE)
LineChunk == Len(Head(Split(StreamBody))) + 1

\* The page right after it was mounted: the effect of lines 227-229 has called
\* fetchParallelData, which found the storage empty and issued the requests
\* of the Promise.all group.
InitMounted ==
    /\ body = StreamBody
    /\ bodyPos = 0
    /\ conn = "none"
    /\ spc = "idle"
    /\ streamLimit = 15
    /\ receivedCount = 0
    /\ buffer = <<>>
    /\ streamUsers = <<>>
    /\ now = 0
    /\ localStorage = <<>>
    /\ puts = <<>>
    /\ lastGet = NoteGet("users", GetFromCache(<<>>, "users", 0), 0)
    /\ users = <<>>
    /\ loading = TRUE
    /\ dataSource = "null"
    /\ metrics = [promiseAll |-> 0, promiseAllSettled |-> 0,
                  workerTime |-> 0, mainThreadTime |-> 0]
    /\ pagesToFetch = 2
    /\ fpc = "all"
    /\ allReqs = [p \in 1..2 |-> Pending]
    /\ settledReqs = <<>>
    /\ timing = [allStart |-> 0, allEnd |-> 0, settledStart |-> 0]
    /\ allUsers = <<>>
    /\ successfulData = <<>>
    /\ lastResult = "none"
    /\ InitProc

\* The page after it was mounted: fetches, refreshes and worker round-trips
\* with a streaming run.
NextOverlap ==
    \/ FetchFromCache
    \/ RefreshData
    \/ \E p \in 1..MaxPages : AllFulfil(p, FirstBatch)
    \/ \E p \in 1..MaxPages : AllReject(p)
    \/ \E p \in 1..MaxPages, r \in {Fulfilled(FirstBatch), Rejected} : SettledSettle(p, r)
    \/ ProcessWithWorker
    \/ \E w \in 1..MaxWorkers, d \in Durations : WorkerOnMessage(w, d)
    \/ \E w \in 1..MaxWorkers : OnMessage(w)
    \/ StartStream
    \/ StreamOpen
    \/ StreamOpenFail
    \/ ReadChunk(LineChunk)
    \/ ReadDone
    \/ ReadError

SpecOverlap == InitMounted /\ [][NextOverlap]_vars

\* Fetching and processing from an empty storage, with the checkbox left on
\* or switched off beforehand.
InitPage ==
    /\ InitNoStream
    /\ InitApp
    /\ minAge = 30
    /\ sortBy = "name"
    /\ useWorker \in BOOLEAN
    /\ workers = <<>>
    /\ lastProc = <<>>

NextPage ==
    \/ \E d \in LongSteps : Tick(d)
    \/ FetchFromCache
    \/ FetchStart
    \/ RefreshData
    \/ \E p \in 1..MaxPages : AllFulfil(p, FirstBatch)
    \/ \E p \in 1..MaxPages : AllReject(p)
    \/ \E p \in 1..MaxPages, r \in {Fulfilled(FirstBatch), Rejected} : SettledSettle(p, r)
    \/ \E d \in Durations : ProcessInMainThread(d)
    \/ ProcessWithWorker
    \/ \E w \in 1..MaxWorkers, d \in Durations : WorkerOnMessage(w, d)
    \/ \E w \in 1..MaxWorkers : WorkerFault(w)
    \/ \E w \in 1..MaxWorkers : OnMessage(w)
    \/ \E w \in 1..MaxWorkers : OnError(w)

SpecPage == InitPage /\ [][NextPage]_vars

\* ------------------------------------------------------------ streaming claims
\* What reader.read() has handed out so far, and its newline-terminated lines.
Delivered == SubSeq(body, 1, bodyPos)
CompleteLines(t) == SubSeq(Split(t), 1, Len(Split(t)) - 1)
LastSegment(t) == Split(t)[Len(Split(t))]
IsUserLine(line) == LineOutcome(line) = "user"
UserLines(t) == SelectSeq(CompleteLines(t), IsUserLine)
FirstN(s, n) == SubSeq(s, 1, Min(n, Len(s)))

RECURSIVE KeepFirstById(_)
\* The users parsed from the lines ls, without those whose id occurred earlier.
KeepFirstById(ls) ==
    IF ls = <<>> THEN <<>>
    ELSE LET init == SubSeq(ls, 1, Len(ls) - 1)
             u == JsonParse(ls[Len(ls)])
         IN  IF \E i \in 1..Len(init) : JsonParse(init[i]).id = u.id
             THEN KeepFirstById(init)
             ELSE Append(KeepFirstById(init), u)

StreamRunning == spc \in {"reading", "done", "failed"} /\ conn # "none"

\* C1: with streamLimit = N, streamUsers never holds more than N records, and
\* once N records have been accepted (counted, or present in streamUsers) the
\* run is no longer waiting on a read of the source.
C1_AtMostLimit ==
    /\ Len(streamUsers) <= streamLimit
    /\ receivedCount <= streamLimit
    /\ (receivedCount >= streamLimit \/ Len(streamUsers) >= streamLimit)
          => spc \notin {"fetching", "reading"}

C1_Witness ==
    /\ spc = "done"
    /\ Len(streamUsers) = streamLimit
    /\ streamLimit = 2
    /\ Len(UserLines(SubSeq(body, bodyPos + 1, Len(body)))) > 0

\* C2 (as claimed): when the run ends because the limit was reached while the
\* source still has data, the stream is no longer open: the ingestor released it.
C2_ReleasedAtLimit ==
    (spc = "done" /\ receivedCount >= streamLimit /\ bodyPos < Len(body))
        => conn # "open"

\* C3 (as claimed): when the stream delivers at least N newline-terminated valid
\* records with pairwise distinct ids, the run ends with exactly N records in
\* streamUsers.
C3_ExactlyLimit ==
    (spc = "done" /\ Len(KeepFirstById(UserLines(body))) >= streamLimit)
        => Len(streamUsers) = streamLimit

\* C4: a line that fails parsing or validation is skipped without ending the
\* run: the counter and streamUsers are at every moment what the valid lines
\* delivered so far alone produce (the first streamLimit of them, without
\* repeated ids), and the run ends only at the limit, at the end of the
\* stream or on a transport failure.
C4_MalformedSkipped ==
    StreamRunning =>
        /\ receivedCount = Len(FirstN(UserLines(Delivered), streamLimit))
        /\ streamUsers = KeepFirstById(FirstN(UserLines(Delivered), streamLimit))
        /\ spc = "done" => (receivedCount >= streamLimit \/ conn = "ended")
        /\ spc = "failed" => conn = "errored"

C4_Witness ==
    /\ spc = "done"
    /\ Len(streamUsers) = 2
    /\ \E i, j, k \in 1..Len(CompleteLines(Delivered)) :
          /\ i < j /\ j < k
          /\ LineOutcome(CompleteLines(Delivered)[i]) = "user"
          /\ LineOutcome(CompleteLines(Delivered)[j]) = "error"
          /\ LineOutcome(CompleteLines(Delivered)[k]) = "user"
          /\ JsonParse(CompleteLines(Delivered)[k]) = streamUsers[2]

\* C5 (as claimed): a valid final record that is not followed by a newline is
\* accepted when the stream ends with the limit not reached.
C5_TrailingParsedAtEnd ==
    (spc = "done" /\ conn = "ended" /\ receivedCount < streamLimit
       /\ IsUserLine(LastSegment(body)))
        => \E i \in 1..Len(streamUsers) : streamUsers[i].id = JsonParse(LastSegment(body)).id

\* ------------------------------------------------------------ cache claims
GetWasMade == Len(lastGet) = 1
GotKey == lastGet[1].key
GotAge == lastGet[1].at - puts[GotKey].at

\* C6: after saveToCache(k, v) an immediate getFromCache(k) returns v; a
\* getFromCache(k) made after more than the expiry time since the store
\* misses and leaves no entry under k, so lookups keep missing until the
\* next saveToCache(k, .).
C6_RoundTrip ==
    (GetWasMade /\ GotKey \in DOMAIN puts) =>
        /\ GotAge = 0 => (lastGet[1].hit /\ lastGet[1].data = puts[GotKey].data)
        /\ GotAge > CACHE_EXPIRY => (~lastGet[1].hit /\ GotKey \notin DOMAIN localStorage)

C6_Witness ==
    /\ GetWasMade
    /\ GotKey \in DOMAIN puts
    /\ GotAge > CACHE_EXPIRY
    /\ ~lastGet[1].hit
    /\ GotKey \notin DOMAIN localStorage
    /\ puts[GotKey].data # <<>>

\* C7 (as claimed): getFromCache returns the stored payload exactly when
\* now - storedAt < TTL.
C7_StrictlyBeforeExpiry ==
    (GetWasMade /\ GotKey \in DOMAIN puts) => (lastGet[1].hit <=> GotAge < CACHE_EXPIRY)

\* C7 (amended): getFromCache returns the stored payload exactly when
\* now - storedAt <= TTL, and otherwise misses and leaves no entry under the
\* key; a lookup made exactly TTL milliseconds after the store is a hit.
C7_ValidThroughExpiry ==
    GetWasMade =>
        IF GotKey \in DOMAIN puts
        THEN /\ lastGet[1].hit <=> GotAge <= CACHE_EXPIRY
             /\ lastGet[1].hit => lastGet[1].data = puts[GotKey].data
             /\ ~lastGet[1].hit => GotKey \notin DOMAIN localStorage
        ELSE ~lastGet[1].hit

C7_Witness ==
    /\ GetWasMade
    /\ GotKey \in DOMAIN puts
    /\ GotAge = CACHE_EXPIRY
    /\ lastGet[1].hit
    /\ lastGet[1].data = puts[GotKey].data

\* ------------------------------------------------------------ fetch claims
RECURSIVE FirstOccurrences(_, _)
\* rest without the records whose id occurs earlier in rest or in seen.
FirstOccurrences(seen, rest) ==
    IF rest = <<>> THEN seen
    ELSE IF \E i \in 1..Len(seen) : SameId(seen[i], Head(rest))
         THEN FirstOccurrences(seen, Tail(rest))
         ELSE FirstOccurrences(Append(seen, Head(rest)), Tail(rest))

RECURSIVE RecordsOf(_, _)
\* The records of the fulfilled requests among the first n of reqs, by page.
RecordsOf(reqs, n) ==
    IF n = 0 THEN <<>>
    ELSE RecordsOf(reqs, n - 1)
            \o (IF reqs[n].st = "fulfilled" THEN reqs[n].items ELSE <<>>)

DistinctIds(s) == \A i, j \in 1..Len(s) : i # j => ~SameId(s[i], s[j])

ServerFetchDone == fpc = "idle" /\ lastResult = "server"

\* C8: after a successful fetch from the server, users is the fail-fast run's
\* records followed by the partial-success run's successful records, without
\* the records whose id occurred earlier; its ids are pairwise distinct; when
\* both runs returned the same records it is that set once, and merging it
\* with itself changes nothing.
C8_MergedOnce ==
    ServerFetchDone =>
        /\ allUsers = RecordsOf(allReqs, Len(allReqs))
        /\ users = FirstOccurrences(<<>>, allUsers \o successfulData)
        /\ DistinctIds(users)
        /\ successfulData = allUsers => users = FirstOccurrences(<<>>, allUsers)
        /\ (successfulData = allUsers /\ DistinctIds(allUsers)) => users = allUsers
        /\ Combine(users, users) = users

C8_Witness ==
    /\ ServerFetchDone
    /\ Len(allReqs) = 2
    /\ successfulData = allUsers
    /\ Len(allUsers) = 4
    /\ Len(users) = 3

\* C9: a rejected request makes the fail-fast group end in the error path at
\* once, while in the partial-success group a rejected request is no error:
\* the group yields exactly the records of the pages that were fulfilled.
C9_FailFastVsPartial ==
    /\ (\E p \in 1..Len(allReqs) : allReqs[p] = Rejected)
          => (fpc = "idle" /\ lastResult \in {"error", "cache"})
    /\ (fpc = "idle" /\ lastResult = "error")
          => (\E p \in 1..Len(allReqs) : allReqs[p] = Rejected)
    /\ (\E p \in 1..Len(settledReqs) : settledReqs[p] = Rejected)
          => (fpc = "settled" \/ lastResult \in {"server", "cache"})
    /\ ServerFetchDone
          => /\ \A p \in 1..Len(settledReqs) : settledReqs[p] # Pending
             /\ successfulData = RecordsOf(settledReqs, Len(settledReqs))

C9_Witness ==
    /\ ServerFetchDone
    /\ Len(settledReqs) = 2
    /\ settledReqs[1] = Rejected
    /\ settledReqs[2].st = "fulfilled"
    /\ successfulData = settledReqs[2].items

\* C10: every call of fetchParallelData, whichever way it ends, eventually
\* leaves loading false, given that every issued request settles.
C10_LoadingCleared == loading ~> ~loading

C10_Witness ==
    /\ fpc = "idle"
    /\ lastResult = "error"
    /\ ~loading
    /\ now > 0

\* ------------------------------------------------------------ processing claims
ProcWasApplied == Len(lastProc) = 1
ProcIn == lastProc[1].users
ProcOut == lastProc[1].out
Kept(r) == r.age > lastProc[1].minAge
Position(s, r) == CHOOSE i \in 1..Len(s) : s[i] = r
SameKey(a, b, key) == IF key = "name" THEN a.name = b.name ELSE a.age = b.age
KeyLeq(a, b, key) ==
    IF key = "name" THEN Rank(a.name) <= Rank(b.name) ELSE a.age <= b.age
EndedInError(w) == workers[w].st = "terminated" /\ lastProc = <<>>

\* C11: every worker created by processWithWorker is posted exactly one
\* request; the caller handles at most one event of it (a response or an
\* error) and the worker is terminated exactly when that event was handled:
\* none is posted a second request, none stays alive after its event.
C11_OneShotWorker ==
    \A w \in 1..Len(workers) :
        /\ workers[w].posted = 1
        /\ workers[w].handled <= 1
        /\ workers[w].handled = 1 <=> workers[w].st = "terminated"
        /\ Len(workers[w].inbox) + Len(workers[w].outbox) + workers[w].handled = 1

C11_Witness ==
    /\ Len(workers) = 2
    /\ workers[1].st = "terminated"
    /\ workers[2].st = "terminated"
    /\ ProcWasApplied
    /\ lastProc[1].mode = "worker"
    /\ \E w \in 1..2 : workers[w].req.users # ProcIn

\* C12: the step that handles a worker's error changes neither users nor the
\* metrics; so when the workers created so far ended in errors and nothing
\* else was applied, users is still the record set every one of them was
\* created with, and the metrics are as before.
C12_ErrorLeavesUsers ==
    /\ [][(\E w \in 1..MaxWorkers : OnError(w)) => (users' = users /\ metrics' = metrics)]_vars
    /\ [](\A w \in 1..Len(workers) :
             EndedInError(w) => /\ workers[w].req.users = users
                                /\ metrics.workerTime = 0)

C12_Witness ==
    /\ Len(workers) = 1
    /\ EndedInError(1)
    /\ workers[1].handled = 1
    /\ WorkerSortedUsers(users, minAge, sortBy) # users

\* C13: for every record set, threshold and sort key the inline transform and
\* the worker's handler give the same sequence, and what either mode applied
\* to users is what the other would have produced from the same input.
C13_ModesAgree ==
    /\ MainSortedUsers(users, minAge, sortBy)
          = StructuredClone(WorkerSortedUsers(Request(users, minAge, sortBy).users,
                                              minAge, sortBy))
    /\ ProcWasApplied =>
          /\ ProcOut = MainSortedUsers(ProcIn, lastProc[1].minAge, lastProc[1].sortBy)
          /\ ProcOut = WorkerSortedUsers(ProcIn, lastProc[1].minAge, lastProc[1].sortBy)

C13_Witness ==
    /\ ProcWasApplied
    /\ lastProc[1].mode = "worker"
    /\ lastProc[1].sortBy = "name"
    /\ Len(ProcOut) = 3
    /\ ProcOut # ProcIn
    /\ \E i \in 1..2 : ProcOut[i].name = "b" /\ ProcOut[i + 1].name = "B"

\* C14: processing keeps exactly the records whose age is greater than the
\* threshold: every output record is an input record with age > T, every
\* input record with age > T is in the output once, and a record whose age
\* equals T is not.
C14_StrictFilter ==
    ProcWasApplied =>
        /\ \A i \in 1..Len(ProcOut) :
              /\ \E j \in 1..Len(ProcIn) : ProcIn[j] = ProcOut[i]
              /\ Kept(ProcOut[i])
        /\ \A j \in 1..Len(ProcIn) :
              Kept(ProcIn[j]) <=> (\E i \in 1..Len(ProcOut) : ProcOut[i] = ProcIn[j])
        /\ Len(ProcOut) = Cardinality({j \in 1..Len(ProcIn) : Kept(ProcIn[j])})

C14_Witness ==
    /\ ProcWasApplied
    /\ lastProc[1].mode = "main"
    /\ Len(ProcIn) = 3
    /\ Len(ProcOut) = 2
    /\ \E j \in 1..3 : ProcIn[j].age = lastProc[1].minAge

\* C15: the output is the filtered records in non-decreasing order of the
\* chosen key (locale order of the names, or numeric age), and records with
\* equal keys are in the order they had in the input.
C15_SortedStable ==
    ProcWasApplied =>
        /\ Len(ProcOut) = Cardinality({j \in 1..Len(ProcIn) : Kept(ProcIn[j])})
        /\ \A i \in 1..Len(ProcOut) : \E j \in 1..Len(ProcIn) : ProcIn[j] = ProcOut[i]
        /\ \A i, j \in 1..Len(ProcOut) :
              i < j => /\ KeyLeq(ProcOut[i], ProcOut[j], lastProc[1].sortBy)
                       /\ SameKey(ProcOut[i], ProcOut[j], lastProc[1].sortBy)
                             => Position(ProcIn, ProcOut[i]) < Position(ProcIn, ProcOut[j])

C15_Witness ==
    /\ ProcWasApplied
    /\ Len(ProcOut) = 3
    /\ \E i, j \in 1..3 :
          /\ i < j
          /\ SameKey(ProcOut[i], ProcOut[j], lastProc[1].sortBy)
          /\ Position(ProcIn, ProcOut[i]) + 1 < Position(ProcIn, ProcOut[j])
    /\ \E i, j \in 1..3 :
          /\ i < j
          /\ ~SameKey(ProcOut[i], ProcOut[j], lastProc[1].sortBy)
          /\ Position(ProcIn, ProcOut[i]) > Position(ProcIn, ProcOut[j])

\* ------------------------------------------------------------ fetch claims, continued
FailFastFailed == fpc = "idle" /\ lastResult = "error"
UsersItemValid ==
    /\ "users" \in DOMAIN localStorage
    /\ ~Expired(now, ParseEntry(localStorage["users"]).timestamp)

\* C17: from the moment the requests of the fail-fast group are issued until
\* the group fails, users, dataSource, the metrics and the storage do not
\* change; the step in which a request of the group rejects ends the call with
\* loading cleared and no request of the partial-success group issued, so
\* nothing of that group is used; and issuing the group changed nothing but
\* the removal of an expired item.
C17_NoFallback ==
    /\ [][/\ fpc = "all" =>
               /\ users' = users
               /\ dataSource' = dataSource
               /\ metrics' = metrics
               /\ localStorage' = localStorage
          /\ (\E p \in 1..MaxPages : AllReject(p)) =>
               /\ fpc' = "idle"
               /\ lastResult' = "error"
               /\ ~loading'
               /\ settledReqs' = <<>>
               /\ successfulData' = <<>>
          /\ (fpc = "idle" /\ fpc' = "all") =>
               /\ users' = users
               /\ dataSource' = dataSource
               /\ metrics' = metrics
               /\ localStorage' = (IF UsersItemValid THEN localStorage
                                   ELSE RemoveItem(localStorage, "users"))]_vars
    /\ [](FailFastFailed =>
             /\ ~loading
             /\ settledReqs = <<>>
             /\ \E p \in 1..Len(allReqs) : allReqs[p] = Rejected)

C17_Witness ==
    /\ FailFastFailed
    /\ users # <<>>
    /\ dataSource = "server"
    /\ \E p, q \in 1..Len(allReqs) : allReqs[p] = Rejected /\ allReqs[q].st = "fulfilled"

IsUserRecord(u) == {"id", "name", "age"} \subseteq DOMAIN u
OnlyUsers(s) == \A i \in 1..Len(s) : IsUserRecord(s[i])

\* C18 (as claimed): a page answered with a non-OK status counts as a failed
\* request, so users and the item stored under 'users' hold User records only.
C18_NonOkIsFailure ==
    /\ OnlyUsers(users)
    /\ "users" \in DOMAIN localStorage => OnlyUsers(ParseEntry(localStorage["users"]).data)

\* The latest saveToCache('users', .) is not older than the expiry time: a
\* fetch that went to the server since then was forced by refreshData.
LastSaveIsFresh == "users" \in DOMAIN puts /\ ~Expired(now, puts["users"].at)

\* C19: refreshData leaves no item under 'users' and issues the page
\* requests whatever the age of the item was; while the requests are
\* outstanding and after a failure there is no item under 'users'; after a
\* success dataSource is 'server' and the item holds the combined set of
\* that fetch.
C19_RefreshBypassesCache ==
    /\ [][RefreshData =>
             /\ "users" \notin DOMAIN localStorage'
             /\ fpc' = "all"
             /\ loading'
             /\ Len(allReqs') = pagesToFetch
             /\ \A p \in 1..Len(allReqs') : allReqs'[p] = Pending
             /\ users' = users
             /\ dataSource' = dataSource]_vars
    /\ [](/\ fpc \in {"all", "settled"} => "users" \notin DOMAIN localStorage
          /\ FailFastFailed => "users" \notin DOMAIN localStorage
          /\ ServerFetchDone =>
                /\ dataSource = "server"
                /\ users = Combine(allUsers, successfulData)
                /\ "users" \in DOMAIN localStorage
                /\ ParseEntry(localStorage["users"]).data = users)

C19_Witness ==
    /\ FailFastFailed
    /\ LastSaveIsFresh
    /\ puts["users"].data # <<>>
    /\ "users" \notin DOMAIN localStorage

\* ------------------------------------------------------------ claims about the whole page
FetchInFlight == fpc # "idle"
StreamInFlight == spc \in {"fetching", "reading"}
WorkersInFlight == Cardinality({w \in 1..Len(workers) : workers[w].st = "running"})
OperationsInFlight ==
    (IF FetchInFlight THEN 1 ELSE 0) + (IF StreamInFlight THEN 1 ELSE 0) + WorkersInFlight

\* C16 (as claimed): at most one data operation (a fetch or refresh, a
\* streaming run, a worker round-trip) is in flight at any time.
C16_OneAtATime == OperationsInFlight <= 1

\* C16 (as claimed), its consequence for the worker: a response is applied to
\* users only when no fetch was started after the worker was created, so users
\* then still is the record set the worker was given.
C16_NoStaleResponse ==
    [][\A w \in 1..MaxWorkers : OnMessage(w) => (users = workers[w].req.users /\ ~loading)]_vars

ProcessingStep ==
    \/ \E d \in Durations : ProcessInMainThread(d)
    \/ ProcessWithWorker
    \/ \E w \in 1..MaxWorkers : OnMessage(w) \/ OnError(w) \/ WorkerFault(w)
    \/ \E w \in 1..MaxWorkers, d \in Durations : WorkerOnMessage(w, d)

\* C20: no step of the processing changes the storage, dataSource or the
\* metrics of the fetch, the inline step changes only users and
\* mainThreadTime and the worker's response only users and workerTime; so a
\* valid item under 'users' always holds the combined set of the latest
\* successful server fetch; and with a valid item fetchParallelData issues no
\* page request but sets users to that set and dataSource to 'cache'.
C20_ProcessingKeepsCache ==
    /\ [][/\ ProcessingStep =>
               /\ localStorage' = localStorage
               /\ dataSource' = dataSource
               /\ loading' = loading
               /\ UNCHANGED <<fpc, allReqs, settledReqs, allUsers, successfulData>>
               /\ metrics' = [metrics EXCEPT !.workerTime = metrics'.workerTime,
                                             !.mainThreadTime = metrics'.mainThreadTime]
          /\ (\E d \in Durations : ProcessInMainThread(d)) =>
               metrics'.workerTime = metrics.workerTime
          /\ (\E w \in 1..MaxWorkers : OnMessage(w)) =>
               metrics'.mainThreadTime = metrics.mainThreadTime
          /\ FetchFromCache =>
               /\ UsersItemValid
               /\ users' = Combine(allUsers, successfulData)
               /\ dataSource' = "cache"
               /\ ~loading'
               /\ UNCHANGED <<fpc, allReqs, settledReqs, localStorage>>
          /\ FetchStart => ~UsersItemValid]_vars
    /\ [](UsersItemValid =>
             /\ lastResult \in {"server", "cache"}
             /\ ParseEntry(localStorage["users"]).data = Combine(allUsers, successfulData))

C20_Witness ==
    /\ lastResult = "cache"
    /\ dataSource = "cache"
    /\ ProcWasApplied
    /\ ProcIn = users
    /\ Len(ProcOut) < Len(users)
    /\ users = ParseEntry(localStorage["users"]).data
    /\ \E i \in 1..Len(users) : users[i].age = minAge

====
